---- MODULE Spec2Model ----
(***************************************************************************)
(* Model of the air-quality ELT pipeline: the row transformer              *)
(* (enrich_raw_data), the table manager (ensure_air_quality_table), the    *)
(* upsert loader (load_dataframe), the three data-quality checks and the   *)
(* task graph of the elt_air_quality DAG.                                  *)
(*                                                                         *)
(* Values.  A nullable scalar is a sequence: <<>> is None / SQL NULL and   *)
(* <<v>> is the value v.  Floats are integers (the checks only compare     *)
(* them with integer bounds).  A UTC timestamp with hourly resolution is   *)
(* the number of hours since day 0; a calendar date is a day number.       *)
(***************************************************************************)
EXTENDS Integers, Sequences, FiniteSets, Bags, TLC

VARIABLES
    db,         \* the DuckDB file: [schema, table : BOOLEAN, rows : bag of rows]
    last,       \* the last API call made on the database and its outcome
    payload,    \* the raw payload handed to enrich_raw_data
    enriched,   \* what enrich_raw_data gave for it: an error or a data frame
    procs,      \* concurrent callers of load_dataframe: where each one is
    written,    \* per `time`, the row of the last INSERT statement that held it
    ds,         \* the logical date of each DAG run
    ti,         \* the state of each task instance of each DAG run
    xcom,       \* the return value of each task instance
    files       \* the raw-data directory: file name -> content

dbvars == <<db, last>>

enrichvars == <<payload, enriched>>

loadervars == <<procs, written>>

dagvars == <<ds, ti, xcom, files>>

vars == <<db, last, payload, enriched, procs, written, ds, ti, xcom, files>>

---------------------------------------------------------------------------
(* Bounds of the model *)

NumDates == 2

NumTimes == 2

MaxBatchLen == 2

MaxHours == 3

---------------------------------------------------------------------------
(* Scalars *)

Null == <<>>

Val(v) == <<v>>

IsNull(x) == x = Null

\* SQL comparison "x < n" / "x > n": NULL compares to NULL, which WHERE drops.
SqlLt(x, n) == (~IsNull(x)) /\ x[1] < n

SqlGt(x, n) == (~IsNull(x)) /\ x[1] > n

Range(s) == {s[i] : i \in DOMAIN s}

---------------------------------------------------------------------------
(* Constants of the program *)

COLUMN_ORDER ==
    <<"time", "pm10", "pm2_5", "uv_index", "latitude", "longitude",
      "timezone", "city", "date", "execution_time">>

\* The column list of CREATE TABLE, in declaration order.
TableColumns ==
    <<"time", "pm10", "pm2_5", "uv_index", "latitude", "longitude",
      "timezone", "city", "date", "execution_time">>

CITY == "Paris"

\* Hours in a UTC calendar day (Series.dt.date of an hourly timestamp).
HoursPerDay == 24

\* check_completeness: HAVING rows_count != 24 OR distinct_times != 24
ExpectedRows == 24

PmMin == 0

PmMax == 500

UvMin == 0

UvMax == 15

---------------------------------------------------------------------------
(* Data frames: an ordered column list and an ordered list of rows, each    *)
(* row a function from the frame's columns to values.                       *)

Frame(cols, rows) == [columns |-> cols, rows |-> rows]

\* dataframe[list(columns)]: KeyError when a column is missing, else the
\* frame restricted to `columns`, in that order.
HasColumns(df, cols) == Range(cols) \subseteq Range(df.columns)

ProjectNothing(df, cols) == df

Project(df, cols) ==
    Frame(cols, [i \in DOMAIN df.rows |-> [c \in Range(cols) |-> df.rows[i][c]]])

\* SELECT * FROM <view>: each row as a tuple in the frame's column order.
SelectStar(df) ==
    [i \in DOMAIN df.rows |-> [k \in DOMAIN df.columns |-> df.rows[i][df.columns[k]]]]

\* A positional tuple stored under the table's declared columns.
TableRow(tuple) ==
    [time |-> tuple[1], pm10 |-> tuple[2], pm2_5 |-> tuple[3],
     uv_index |-> tuple[4], latitude |-> tuple[5], longitude |-> tuple[6],
     timezone |-> tuple[7], city |-> tuple[8], date |-> tuple[9],
     execution_time |-> tuple[10]]

DateOf(t) == t \div HoursPerDay

MkRow(t, prof, ex) ==
    [time |-> Val(t), pm10 |-> prof.pm10, pm2_5 |-> prof.pm2_5,
     uv_index |-> prof.uv_index, latitude |-> prof.latitude,
     longitude |-> Val(1341), timezone |-> Val("UTC"), city |-> Val(CITY),
     date |-> Val(DateOf(t)), execution_time |-> Val(ex)]

---------------------------------------------------------------------------
(* The DuckDB database file *)

\* A table is a bag of rows: nothing but the primary key keeps a row from
\* being stored twice.
EmptyDb == [schema |-> FALSE, table |-> FALSE, rows |-> EmptyBag]

\* CREATE SCHEMA IF NOT EXISTS raw
CreateSchemaIfNotExists(d) == [d EXCEPT !.schema = TRUE]

CreateOrReplaceTable(d) == [d EXCEPT !.table = TRUE, !.rows = EmptyBag]

\* CREATE TABLE IF NOT EXISTS raw.air_quality_raw (time TIMESTAMPTZ PRIMARY KEY, ...)
CreateTableIfNotExists(d) ==
    IF d.table THEN d ELSE [d EXCEPT !.table = TRUE, !.rows = EmptyBag]

\* ensure_air_quality_table.  outcome: "ok"; "io_error", duckdb.connect
\* raises (the file is locked by another process); "interrupted", the
\* process stops between the two statements (each is its own transaction).
ensure_air_quality_table(d, outcome) ==
    CASE outcome = "io_error" -> [db |-> d, err |-> "IOException"]
      [] outcome = "interrupted" ->
            [db |-> CreateSchemaIfNotExists(d), err |-> "Interrupted"]
      [] OTHER ->
            [db |-> CreateTableIfNotExists(CreateSchemaIfNotExists(d)),
             err |-> "none"]

\* The rows of T that satisfy P, with their multiplicities.
Where(T, P(_)) == [x \in {y \in DOMAIN T : P(y)} |-> T[x]]

InsertRow(T, r) == T (+) SetToBag({r})

InsertOrIgnoreRow(T, r) ==
    IF \E x \in DOMAIN T : x.time = r.time THEN T ELSE T (+) SetToBag({r})

\* INSERT OR REPLACE of one row: the rows with the same primary key are
\* deleted and the new row is stored.
InsertOrReplaceRow(T, r) == Where(T, LAMBDA x : x.time # r.time) (+) SetToBag({r})

RECURSIVE InsertOrReplace(_, _)
InsertOrReplace(T, tuples) ==
    IF tuples = <<>> THEN T
    ELSE InsertOrReplace(InsertOrReplaceRow(T, TableRow(Head(tuples))), Tail(tuples))

\* Two rows of one INSERT statement carry the same primary key.
HasDuplicateKey(tuples) ==
    Cardinality({tuples[i][1] : i \in DOMAIN tuples}) # Len(tuples)

\* The table after the INSERT, and SELECT COUNT(*) of it as the return value.
Loaded(d, rows) ==
    [db |-> [d EXCEPT !.rows = rows], err |-> "none", ret |-> Val(BagCardinality(rows))]

\* load_dataframe.  dupMode is what the engine does with a statement whose
\* own rows share a key: "reject" (Invalid Input Error, nothing written) or
\* "last" (the later row wins); connectOk is whether duckdb.connect succeeds.
load_dataframe(d, df, dupMode, connectOk) ==
    IF ~HasColumns(df, COLUMN_ORDER) THEN [db |-> d, err |-> "KeyError", ret |-> Null]
    ELSE IF ~connectOk THEN [db |-> d, err |-> "IOException", ret |-> Null]
    ELSE IF ~d.table THEN [db |-> d, err |-> "CatalogException", ret |-> Null]
    ELSE LET tuples == SelectStar(Project(df, COLUMN_ORDER)) IN
         IF HasDuplicateKey(tuples) /\ dupMode = "reject"
         THEN [db |-> d, err |-> "InvalidInputException", ret |-> Null]
         ELSE Loaded(d, InsertOrReplace(d.rows, tuples))

---------------------------------------------------------------------------
(* The data-quality checks (the SQL each task runs, and its raise) *)

RowsOfDate(T, d) == Where(T, LAMBDA r : r.date = d)

CompletenessBadLoose(rc, dt) == rc < ExpectedRows - 1 \/ dt < ExpectedRows - 1

\* HAVING rows_count != 24 OR distinct_times != 24
CompletenessBad(rc, dt) == rc # ExpectedRows \/ dt # ExpectedRows

\* SELECT date, COUNT(*), COUNT(DISTINCT time) ... GROUP BY 1 HAVING ...
CompletenessFailures(T) ==
    {g \in {<<d, BagCardinality(RowsOfDate(T, d)),
              Cardinality({r.time : r \in DOMAIN RowsOfDate(T, d)})>> :
                d \in {r.date : r \in DOMAIN T}} :
        CompletenessBad(g[2], g[3])}

check_completeness(d) ==
    IF ~d.table THEN [err |-> "CatalogException", failures |-> {}]
    ELSE LET failures == CompletenessFailures(d.rows) IN
         [err |-> IF failures # {} THEN "ValueError" ELSE "none",
          failures |-> failures]

CriticalCols == {"pm10", "pm2_5", "uv_index", "latitude", "longitude", "timezone", "city"}

\* SELECT COUNT(*) ... WHERE pm10 IS NULL OR pm2_5 IS NULL OR ...
NullCount(T) == BagCardinality(Where(T, LAMBDA r : \E c \in CriticalCols : IsNull(r[c])))

check_not_nulls(d) ==
    IF ~d.table THEN [err |-> "CatalogException", count |-> 0]
    ELSE [err |-> IF NullCount(d.rows) > 0 THEN "ValueError" ELSE "none",
          count |-> NullCount(d.rows)]

Metrics == {"pm10", "pm2_5", "uv_index"}

MetricMin(m) == IF m = "uv_index" THEN UvMin ELSE PmMin

MetricMax(m) == IF m = "uv_index" THEN UvMax ELSE PmMax

OutOfRangeExclusive(x, m) == (~IsNull(x)) /\ (x[1] <= MetricMin(m) \/ x[1] >= MetricMax(m))

\* WHERE m < lo OR m > hi
OutOfRange(x, m) == SqlLt(x, MetricMin(m)) \/ SqlGt(x, MetricMax(m))

\* results = {name: COUNT(*) ...}
RangeCounts(T) ==
    [m \in Metrics |-> BagCardinality(Where(T, LAMBDA r : OutOfRange(r[m], m)))]

\* failures = {k: v for k, v in results.items() if v > 0}
RangeFailures(T) ==
    LET results == RangeCounts(T) IN
    [m \in {k \in Metrics : results[k] > 0} |-> results[m]]

check_ranges(d) ==
    IF ~d.table THEN [err |-> "CatalogException", failures |-> <<>>]
    ELSE LET failures == RangeFailures(d.rows) IN
         [err |-> IF DOMAIN failures # {} THEN "ValueError" ELSE "none",
          failures |-> failures]

---------------------------------------------------------------------------
(* Inputs of the database-level specifications *)

Edge == [pm10 |-> Val(500), pm2_5 |-> Val(0), uv_index |-> Val(15), latitude |-> Val(5252)]

UvHigh == [pm10 |-> Val(0), pm2_5 |-> Val(500), uv_index |-> Val(16), latitude |-> Val(5252)]

Pm10High == [pm10 |-> Val(501), pm2_5 |-> Val(5), uv_index |-> Val(15), latitude |-> Val(5252)]

Pm25Neg == [pm10 |-> Val(10), pm2_5 |-> Val(0 - 1), uv_index |-> Val(0), latitude |-> Val(5252)]

NullPm == [pm10 |-> Null, pm2_5 |-> Val(5), uv_index |-> Val(0), latitude |-> Val(5252)]

Reverse(s) == [i \in DOMAIN s |-> s[Len(s) + 1 - i]]

SeqsUpTo(S, n) == UNION {[1 .. k -> S] : k \in 0 .. n}

\* Spec: the hours 0 .. NumTimes-1 of day 0.
Times == 0 .. (NumTimes - 1)

\* Every hour with in-range values; hour 0 also with other values, so that
\* a load can meet a stored row of the same time and different content.
BasicRows == {MkRow(t, Edge, 1) : t \in Times} \cup {MkRow(0, UvHigh, 1)}

SpecialRows == {MkRow(0, p, 1) : p \in {Pm10High, Pm25Neg, NullPm}}

\* The frames handed to load_dataframe: every sequence of up to MaxBatchLen
\* basic rows (repeated timestamps included), and each special row alone,
\* with its columns in canonical or in reverse order.
BatchInputs ==
    {Frame(COLUMN_ORDER, rows) : rows \in SeqsUpTo(BasicRows, MaxBatchLen)}
    \cup {Frame(cols, <<r>>) : cols \in {COLUMN_ORDER, Reverse(COLUMN_ORDER)},
                               r \in SpecialRows}

FrameTimes(df) == {df.rows[i].time : i \in DOMAIN df.rows}

\* The row a frame supplies for time t: its last row with that time.
SuppliedRow(df, t) ==
    df.rows[CHOOSE i \in DOMAIN df.rows :
                /\ df.rows[i].time = t
                /\ \A j \in DOMAIN df.rows : df.rows[j].time = t => j <= i]

DupModes(df) ==
    IF Cardinality(FrameTimes(df)) # Len(df.rows) THEN {"reject", "last"} ELSE {"last"}

---------------------------------------------------------------------------
(* Specification Spec: calls of the database functions, one at a time *)

NoCall == [op |-> "none", err |-> "none"]

NoPayload == [hourly |-> <<>>, latitude |-> Null, longitude |-> Null, timezone |-> Null]

NotCalled == [err |-> "not_called", df |-> Null]

NoProcs == <<>>

Init ==
    /\ db = EmptyDb
    /\ last = NoCall
    /\ payload = NoPayload
    /\ enriched = NotCalled
    /\ procs = NoProcs
    /\ written = <<>>
    /\ ds = <<>>
    /\ ti = <<>>
    /\ xcom = <<>>
    /\ files = <<>>

EnsureTable ==
    \E outcome \in {"ok", "io_error", "interrupted"} :
        LET res == ensure_air_quality_table(db, outcome) IN
        /\ db' = res.db
        /\ last' = [op |-> "ensure", err |-> res.err, had |-> db.table]
        /\ UNCHANGED <<enrichvars, loadervars, dagvars>>

LoadCall(df, dupMode, connectOk) ==
    \E res \in {load_dataframe(db, df, dupMode, connectOk)} :
    /\ db' = res.db
    /\ last' = [op |-> "load", err |-> res.err, batch |-> df, ret |-> res.ret,
                hit |-> \E r \in DOMAIN db.rows : r.time \in FrameTimes(df),
                again |-> /\ last.op = "load"
                          /\ last.err = "none"
                          /\ last.batch = df]
    /\ UNCHANGED <<enrichvars, loadervars, dagvars>>

LoadDataframe ==
    \E df \in BatchInputs, connectOk \in BOOLEAN :
        \E dupMode \in DupModes(df) : LoadCall(df, dupMode, connectOk)

CheckCompleteness ==
    LET res == check_completeness(db) IN
    /\ last' = [op |-> "check_completeness", err |-> res.err, failures |-> res.failures]
    /\ UNCHANGED <<db, enrichvars, loadervars, dagvars>>

CheckNotNulls ==
    LET res == check_not_nulls(db) IN
    /\ last' = [op |-> "check_not_nulls", err |-> res.err, count |-> res.count]
    /\ UNCHANGED <<db, enrichvars, loadervars, dagvars>>

CheckRanges ==
    LET res == check_ranges(db) IN
    /\ last' = [op |-> "check_ranges", err |-> res.err, failures |-> res.failures]
    /\ UNCHANGED <<db, enrichvars, loadervars, dagvars>>

Next ==
    \/ EnsureTable
    \/ LoadDataframe
    \/ CheckCompleteness
    \/ CheckNotNulls
    \/ CheckRanges

Spec == Init /\ [][Next]_vars

---------------------------------------------------------------------------
(* Specification SpecDays: whole-day batches and the completeness check *)

Dates == 0 .. (NumDates - 1)

\* Hour ranges of a day batch: the whole day, the day short of its last
\* hour, and the last hour alone.
HourRanges == {<<0, HoursPerDay - 1>>, <<0, HoursPerDay - 2>>,
               <<HoursPerDay - 1, HoursPerDay - 1>>}

DayBatches == [d : Dates, rng : HourRanges, prof : {Edge}]

DayFrame(b) ==
    Frame(COLUMN_ORDER,
          [i \in 1 .. (b.rng[2] - b.rng[1] + 1) |->
              MkRow(b.d * HoursPerDay + b.rng[1] + i - 1, b.prof, 1)])

LoadDay == \E b \in DayBatches : LoadCall(DayFrame(b), "last", TRUE)

NextDays ==
    \/ EnsureTable
    \/ LoadDay
    \/ CheckCompleteness

SpecDays == Init /\ [][NextDays]_vars

---------------------------------------------------------------------------
(* The row transformer *)

\* A `time` string of the payload: a wall-clock hour and a UTC offset in
\* hours, or no offset at all ("2025-11-04T01:00" is <<1>> with offset Null,
\* "2025-11-04T01:00+01:00" is <<1>> with offset <<1>>).
TimeString(clock, offset) == [clock |-> clock, offset |-> offset]

\* pd.to_datetime(..., utc=True): a string without offset is taken as UTC, one
\* with an offset is converted to UTC.
to_datetime(ts) == IF IsNull(ts.offset) THEN ts.clock ELSE ts.clock - ts.offset[1]

\* pd.DataFrame(payload["hourly"]): one column per field, in the order of the
\* mapping; ValueError unless all arrays have the same length.
EqualLengths(hourly) ==
    \A i, j \in DOMAIN hourly : Len(hourly[i].values) = Len(hourly[j].values)

HourlyFields(hourly) == [i \in DOMAIN hourly |-> hourly[i].name]

FieldValues(hourly, name) ==
    hourly[CHOOSE i \in DOMAIN hourly : hourly[i].name = name].values

NumRows(hourly) == IF hourly = <<>> THEN 0 ELSE Len(hourly[1].values)

HourlyFrame(hourly) ==
    Frame(HourlyFields(hourly),
          [i \in 1 .. NumRows(hourly) |->
              [c \in Range(HourlyFields(hourly)) |-> FieldValues(hourly, c)[i]]])

\* dataframe[name] = value: the column is overwritten, or appended as the
\* last column; value(row) is the cell of each row.
Assign(df, name, value(_)) ==
    Frame(IF name \in Range(df.columns) THEN df.columns ELSE Append(df.columns, name),
          [i \in DOMAIN df.rows |->
              [c \in Range(df.columns) \cup {name} |->
                  IF c = name THEN value(df.rows[i]) ELSE df.rows[i][c]]])

IsLastOccurrence(rows, i) ==
    \A j \in DOMAIN rows : j > i => rows[j].time # rows[i].time

\* drop_duplicates(subset=["time"]) keeps a row when no earlier row has its time.
IsFirstOccurrence(rows, i) ==
    \A j \in DOMAIN rows : j < i => rows[j].time # rows[i].time

RECURSIVE KeptRows(_, _)
KeptRows(rows, i) ==
    IF i > Len(rows) THEN <<>>
    ELSE (IF IsFirstOccurrence(rows, i) THEN <<rows[i]>> ELSE <<>>)
            \o KeptRows(rows, i + 1)

drop_duplicates(df) == Frame(df.columns, KeptRows(df.rows, 1))

\* enrich_raw_data(payload, columns), with `now` the clock read on entry.
enrich_raw_data(p, columns, now) ==
    IF ~EqualLengths(p.hourly) THEN [err |-> "ValueError", df |-> Null]
    ELSE IF "time" \notin Range(HourlyFields(p.hourly))
         THEN [err |-> "KeyError", df |-> Null]
    ELSE LET d0 == HourlyFrame(p.hourly)
             d1 == Assign(d0, "time", LAMBDA r : Val(to_datetime(r.time)))
             d2 == Assign(d1, "date", LAMBDA r : Val(DateOf(r.time[1])))
             d3 == Assign(d2, "latitude", LAMBDA r : p.latitude)
             d4 == Assign(d3, "longitude", LAMBDA r : p.longitude)
             d5 == Assign(d4, "timezone", LAMBDA r : p.timezone)
             d6 == Assign(d5, "city", LAMBDA r : Val(CITY))
             d7 == Assign(d6, "execution_time", LAMBDA r : Val(now))
         IN IF ~HasColumns(d7, columns) THEN [err |-> "KeyError", df |-> Null]
            ELSE [err |-> "none", df |-> drop_duplicates(Project(d7, columns))]

---------------------------------------------------------------------------
(* Specification SpecEnrich: enrich_raw_data on bounded payloads *)

\* The `time` arrays: all strings without offset, or all with one.
ClockHours == {0, 1}

TimeArrays ==
    SeqsUpTo({TimeString(h, Null) : h \in ClockHours}, MaxHours)
    \cup SeqsUpTo({TimeString(h, Val(o)) : h \in ClockHours, o \in {0, 1}}, MaxHours)

\* The measurement at position i is 10 + i: a row shows where it came from.
Measured(n) == [i \in 1 .. n |-> Val(10 + i)]

\* The hourly block: `time` and the named measurement fields; with ragged,
\* the last field is one entry short.
Hourly(times, names, ragged) ==
    [k \in 1 .. (Len(names) + 1) |->
        IF k = 1 THEN [name |-> "time", values |-> times]
        ELSE [name |-> names[k - 1],
              values |-> Measured(IF ragged /\ k = Len(names) + 1 /\ Len(times) > 0
                                  THEN Len(times) - 1 ELSE Len(times))]]

FieldLists ==
    {<<"pm10", "pm2_5", "uv_index">>,
     <<"uv_index", "pm2_5", "pm10">>,
     <<"pm10", "pm2_5", "uv_index", "ozone">>,
     <<"pm2_5", "uv_index">>,
     <<"pm2_5", "uv_index", "ozone">>}

PayloadInputs ==
    {[hourly |-> Hourly(times, names, ragged), latitude |-> lat,
      longitude |-> Val(235), timezone |-> Val("Europe/Paris")] :
        times \in TimeArrays, names \in FieldLists, ragged \in BOOLEAN,
        lat \in {Val(4885), Null}}

InitEnrich ==
    /\ db = EmptyDb
    /\ last = NoCall
    /\ payload \in PayloadInputs
    /\ enriched = NotCalled
    /\ procs = NoProcs
    /\ written = <<>>
    /\ ds = <<>>
    /\ ti = <<>>
    /\ xcom = <<>>
    /\ files = <<>>

Enrich ==
    /\ enriched = NotCalled
    /\ \E now \in {1, 2} : enriched' = enrich_raw_data(payload, COLUMN_ORDER, now)
    /\ UNCHANGED <<payload, dbvars, loadervars, dagvars>>

NextEnrich == Enrich

SpecEnrich == InitEnrich /\ [][NextEnrich]_vars

---------------------------------------------------------------------------
(* Specification SpecLoaders: two runs inside load_dataframe at once.      *)
(* Each statement is a transaction of its own.  duckdb.connect on a file   *)
(* another process has open raises; connections of one process share the  *)
(* database and their statements interleave.                               *)

Loaders == {"run_a", "run_b"}

\* Each run stamps its rows with its own execution_time.
ExecutionTime(p) == IF p = "run_a" THEN 1 ELSE 2

\* The frames of a run: every hour of the day, or hour 0 alone, with the
\* values of one profile.
LoaderFrames(p) ==
    {Frame(COLUMN_ORDER, [i \in 1 .. n |-> MkRow(i - 1, prof, ExecutionTime(p))]) :
        n \in {1, NumTimes}, prof \in {Edge, UvHigh}}

Idle == [pc |-> "idle", df |-> Null, ret |-> Null, err |-> "none"]

InitLoaders ==
    /\ db = ensure_air_quality_table(EmptyDb, "ok").db
    /\ last = NoCall
    /\ payload = NoPayload
    /\ enriched = NotCalled
    /\ procs = [p \in Loaders |-> Idle]
    /\ written = <<>>
    /\ ds = <<>>
    /\ ti = <<>>
    /\ xcom = <<>>
    /\ files = <<>>

\* with duckdb.connect(...) as con: con.register(view_name, df_to_load)
LoaderConnect(p) ==
    /\ procs[p].pc = "idle"
    /\ \E df \in LoaderFrames(p), locked \in BOOLEAN :
          /\ locked => \E q \in Loaders \ {p} : procs[q].pc # "idle"
          /\ procs' = [procs EXCEPT ![p] =
                IF locked THEN [Idle EXCEPT !.err = "IOException"]
                ELSE [pc |-> "registered", df |-> df, ret |-> Null, err |-> "none"]]
    /\ UNCHANGED <<dbvars, enrichvars, written, dagvars>>

\* con.execute("INSERT OR REPLACE INTO ... SELECT * FROM view")
LoaderInsert(p) ==
    /\ procs[p].pc = "registered"
    /\ \E res \in {load_dataframe(db, procs[p].df, "last", TRUE)} :
          /\ db' = res.db
          /\ procs' = [procs EXCEPT ![p].pc = "inserted"]
          /\ written' = [t \in DOMAIN written \cup FrameTimes(procs[p].df) |->
                            IF t \in FrameTimes(procs[p].df)
                            THEN SuppliedRow(procs[p].df, t) ELSE written[t]]
    /\ UNCHANGED <<last, enrichvars, dagvars>>

\* row_count = con.sql("SELECT COUNT(*) ...").fetchone()[0]; the connection closes
LoaderCount(p) ==
    /\ procs[p].pc = "inserted"
    /\ procs' = [procs EXCEPT ![p] =
            [Idle EXCEPT !.ret = Val(BagCardinality(db.rows))]]
    /\ UNCHANGED <<dbvars, enrichvars, written, dagvars>>

NextLoaders ==
    \E p \in Loaders :
        \/ LoaderConnect(p)
        \/ LoaderInsert(p)
        \/ LoaderCount(p)

SpecLoaders == InitLoaders /\ [][NextLoaders]_vars

---------------------------------------------------------------------------
(* The payload store *)

SOURCE == "air_quality"

\* f"{SOURCE}_{ds}.json"
air_quality_filename_for_date(d) == <<SOURCE, d, "json">>

\* The unit strings of the API response hold non-ASCII characters.
MicroUnits == "[U+03BC]g/m[U+00B3]"

NonAscii(p) == p.hourly_units = MicroUnits

\* json.dumps(payload, indent=2, ensure_ascii=False): the document as text,
\* non-ASCII characters left as they are.
json_dumps(p) == [json |-> p, ascii |-> ~NonAscii(p)]

json_loads(text) == text.json

Locales == {"utf-8", "ascii", "cp1253"}

EmptyFile == [encoding |-> "none", text |-> Null]

\* str.encode in the locale's encoding (write_text is given none).  ASCII
\* text has the same bytes in all three.
CanEncode(text, locale) == text.ascii \/ locale # "ascii"

Encode(text, locale) ==
    [encoding |-> IF text.ascii THEN "utf-8" ELSE locale, text |-> text]

WriteFile(fs, name, content) ==
    [n \in DOMAIN fs \cup {name} |-> IF n = name THEN content ELSE fs[n]]

\* A writer that replaces what the encoding cannot hold (errors="replace")
persist_payload_lossy(fs, p, filename, locale) ==
    [files |-> WriteFile(fs, filename,
                         [encoding |-> "utf-8",
                          text |-> [json |-> [p EXCEPT !.hourly_units = "?g/m?"],
                                    ascii |-> TRUE]]),
     err |-> "none", ret |-> filename]

\* persist_payload: open(mode="w") truncates the file, then the text is
\* encoded and written.
persist_payload(fs, p, filename, locale) ==
    IF CanEncode(json_dumps(p), locale)
    THEN [files |-> WriteFile(fs, filename, Encode(json_dumps(p), locale)),
          err |-> "none", ret |-> filename]
    ELSE [files |-> WriteFile(fs, filename, EmptyFile),
          err |-> "UnicodeEncodeError", ret |-> Null]

\* load_payload_from_disk: read_text(encoding="utf-8"), then json.loads
load_payload_from_disk(fs, path) ==
    IF path \notin DOMAIN fs THEN [err |-> "FileNotFoundError", ret |-> Null]
    ELSE IF fs[path] = EmptyFile THEN [err |-> "JSONDecodeError", ret |-> Null]
    ELSE IF fs[path].encoding # "utf-8" THEN [err |-> "UnicodeDecodeError", ret |-> Null]
    ELSE [err |-> "none", ret |-> json_loads(fs[path].text)]

---------------------------------------------------------------------------
(* The tasks of the DAG *)

\* The clock counts in units of 1/TicksPerSecond second; strftime with %S
\* prints whole seconds.
TicksPerSecond == 2

\* strftime("%Y-%m-%dT%H:%M:%SZ") of an hourly timestamp
strftime(x) == TimeString(x[1], Val(0))

\* strftime("%Y-%m-%dT%H:%M:%SZ") of the execution timestamp
strftime_seconds(x) == [seconds |-> x[1] \div TicksPerSecond]

to_datetime_seconds(str) == str.seconds * TicksPerSecond

\* astype(str) of a date, and pd.to_datetime(...).dt.date of the string
date_str(x) == [day |-> x[1]]

to_date(str) == str.day

\* DataFrame.to_dict(orient="records"): the rows, each with its keys in
\* column order (an empty frame gives an empty list).
to_dict(df) == [keys |-> IF df.rows = <<>> THEN <<>> ELSE df.columns, rows |-> df.rows]

\* pd.DataFrame.from_records(records)
from_records(records) == Frame(records.keys, records.rows)

\* The body of task `enrich`
enrich_task(p, now) ==
    LET res == enrich_raw_data(p, COLUMN_ORDER, now) IN
    IF res.err # "none" THEN [err |-> res.err, ret |-> Null]
    ELSE LET a1 == Assign(res.df, "time", LAMBDA r : strftime(r.time))
             a2 == Assign(a1, "date", LAMBDA r : date_str(r.date))
             a3 == Assign(a2, "execution_time", LAMBDA r : strftime_seconds(r.execution_time))
         IN [err |-> "none", ret |-> to_dict(a3)]

\* The body of task `load`
load_task(d, records, dupMode, connectOk) ==
    LET f0 == from_records(records) IN
    IF ~HasColumns(f0, <<"time", "execution_time", "date">>)
    THEN [db |-> d, err |-> "KeyError", ret |-> Null]
    ELSE LET f1 == Assign(f0, "time", LAMBDA r : Val(to_datetime(r.time)))
             f2 == Assign(f1, "execution_time",
                          LAMBDA r : Val(to_datetime_seconds(r.execution_time)))
             f3 == Assign(f2, "date", LAMBDA r : Val(to_date(r.date)))
         IN load_dataframe(d, f3, dupMode, connectOk)

\* What the API answers for start_date = end_date = d: 24 hourly entries.
\* "dup": the last entry repeats the hour before it; "null": pm10 of hour 0
\* is null; "uv16": uv_index of hour 0 is 16; "no_uv": the answer has no
\* uv_index array.
PayloadKinds == {"full", "dup", "null", "uv16", "no_uv"}

ApiPayload(d, kind) ==
    LET n == HoursPerDay
        times == [i \in 1 .. n |->
                    TimeString(d * HoursPerDay
                               + (IF kind = "dup" /\ i = n THEN i - 2 ELSE i - 1), Null)]
        pm10 == [i \in 1 .. n |-> IF kind = "null" /\ i = 1 THEN Null ELSE Val(500)]
        pm2_5 == [i \in 1 .. n |-> Val(0)]
        uv == [i \in 1 .. n |-> IF kind = "uv16" /\ i = 1 THEN Val(16) ELSE Val(15)]
        measured == <<[name |-> "time", values |-> times],
                      [name |-> "pm10", values |-> pm10],
                      [name |-> "pm2_5", values |-> pm2_5]>>
    IN [hourly |-> IF kind = "no_uv" THEN measured
                   ELSE Append(measured, [name |-> "uv_index", values |-> uv]),
        hourly_units |-> MicroUnits,
        latitude |-> Val(5252), longitude |-> Val(1341), timezone |-> Val("UTC")]

Tasks ==
    {"fetch_payload", "persist_payload", "load_from_disk", "enrich", "ensure_table",
     "load", "check_completeness", "check_not_nulls", "check_ranges"}

UpstreamNoGroupEdge(t) ==
    CASE t = "persist_payload" -> {"fetch_payload"}
      [] t = "load_from_disk" -> {"persist_payload"}
      [] t = "enrich" -> {"load_from_disk"}
      [] t = "load" -> {"enrich", "ensure_table"}
      [] t = "check_not_nulls" -> {"check_completeness"}
      [] t = "check_ranges" -> {"check_not_nulls"}
      [] OTHER -> {}

\* The edges of the DAG: the arguments of the task calls, `created >>
\* inserted >> dq` and `completeness >> not_nulls >> ranges`.
Upstream(t) ==
    CASE t = "persist_payload" -> {"fetch_payload"}
      [] t = "load_from_disk" -> {"persist_payload"}
      [] t = "enrich" -> {"load_from_disk"}
      [] t = "load" -> {"enrich", "ensure_table"}
      [] t = "check_completeness" -> {"load"}
      [] t = "check_not_nulls" -> {"check_completeness"}
      [] t = "check_ranges" -> {"check_not_nulls"}
      [] OTHER -> {}

---------------------------------------------------------------------------
(* Specification SpecDag: DAG runs, each keyed by its logical date, on a     *)
(* database that earlier runs may have filled.  A task instance starts when  *)
(* all its upstream tasks have succeeded and is marked upstream_failed when  *)
(* one has failed (trigger rule all_success, no retries).                    *)

Runs == {"scheduled"}

\* A run is over when its leaf tasks are; it fails when one of them has
\* failed or was marked upstream_failed.
Leaves == {t \in Tasks : \A u \in Tasks : t \notin Upstream(u)}

RunState(r) ==
    IF \E t \in Leaves : ti[r][t] \in {"none", "running"} THEN "running"
    ELSE IF \E t \in Leaves : ti[r][t] \in {"failed", "upstream_failed"} THEN "failed"
    ELSE "success"

PriorDbs ==
    {EmptyDb} \cup
    {load_dataframe(ensure_air_quality_table(EmptyDb, "ok").db,
                    DayFrame([d |-> 0, rng |-> rng, prof |-> Edge]), "last", TRUE).db :
        rng \in {<<0, HoursPerDay - 1>>, <<0, HoursPerDay - 2>>}}

InitDag ==
    /\ db \in PriorDbs
    /\ last = NoCall
    /\ payload = NoPayload
    /\ enriched = NotCalled
    /\ procs = NoProcs
    /\ written = <<>>
    /\ ds \in {f \in [Runs -> Dates] : \A r, q \in Runs : f[r] = f[q] => r = q}
    /\ ti = [r \in Runs |-> [t \in Tasks |-> "none"]]
    /\ xcom = [r \in Runs |-> [t \in Tasks |-> Null]]
    /\ files = <<>>

Start(r, t) ==
    /\ ti[r][t] = "none"
    /\ \A u \in Upstream(t) : ti[r][u] = "success"
    /\ ti' = [ti EXCEPT ![r][t] = "running"]
    /\ UNCHANGED <<dbvars, enrichvars, loadervars, ds, xcom, files>>

MarkUpstreamFailed(r, t) ==
    /\ ti[r][t] = "none"
    /\ \E u \in Upstream(t) : ti[r][u] \in {"failed", "upstream_failed"}
    /\ ti' = [ti EXCEPT ![r][t] = "upstream_failed"]
    /\ UNCHANGED <<dbvars, enrichvars, loadervars, ds, xcom, files>>

\* The task instance ends: success with its return value, or failed.
Finish(r, t, err, ret) ==
    /\ ti' = [ti EXCEPT ![r][t] = IF err = "none" THEN "success" ELSE "failed"]
    /\ xcom' = [xcom EXCEPT ![r][t] = ret]

FetchPayload(r) ==
    /\ ti[r]["fetch_payload"] = "running"
    /\ \/ \E kind \in PayloadKinds :
             Finish(r, "fetch_payload", "none", ApiPayload(ds[r], kind))
       \/ Finish(r, "fetch_payload", "HTTPError", Null)
    /\ UNCHANGED <<dbvars, enrichvars, loadervars, ds, files>>

PersistPayload(r) ==
    /\ ti[r]["persist_payload"] = "running"
    /\ \E locale \in Locales :
        \E res \in {persist_payload(files, xcom[r]["fetch_payload"],
                                    air_quality_filename_for_date(ds[r]), locale)} :
            /\ files' = res.files
            /\ Finish(r, "persist_payload", res.err, res.ret)
    /\ UNCHANGED <<dbvars, enrichvars, loadervars, ds>>

LoadFromDisk(r) ==
    /\ ti[r]["load_from_disk"] = "running"
    /\ \E res \in {load_payload_from_disk(files, xcom[r]["persist_payload"])} :
            Finish(r, "load_from_disk", res.err, res.ret)
    /\ UNCHANGED <<dbvars, enrichvars, loadervars, ds, files>>

EnrichTask(r) ==
    /\ ti[r]["enrich"] = "running"
    /\ \E now \in {2, 3} :
        \E res \in {enrich_task(xcom[r]["load_from_disk"], now)} :
            Finish(r, "enrich", res.err, res.ret)
    /\ UNCHANGED <<dbvars, enrichvars, loadervars, ds, files>>

EnsureTableTask(r) ==
    /\ ti[r]["ensure_table"] = "running"
    /\ \E outcome \in {"ok", "io_error", "interrupted"} :
        \E res \in {ensure_air_quality_table(db, outcome)} :
            /\ db' = res.db
            /\ Finish(r, "ensure_table", res.err, Null)
    /\ UNCHANGED <<last, enrichvars, loadervars, ds, files>>

LoadTask(r) ==
    /\ ti[r]["load"] = "running"
    /\ \E connectOk \in BOOLEAN, dupMode \in {"reject", "last"} :
        \E res \in {load_task(db, xcom[r]["enrich"], dupMode, connectOk)} :
            /\ db' = res.db
            /\ Finish(r, "load", res.err, res.ret)
    /\ UNCHANGED <<last, enrichvars, loadervars, ds, files>>

\* A check task: duckdb.connect may raise; else the check's own outcome.
CheckTask(r, t, res) ==
    /\ ti[r][t] = "running"
    /\ \E connectOk \in BOOLEAN :
          Finish(r, t, IF connectOk THEN res.err ELSE "IOException", Null)
    /\ UNCHANGED <<dbvars, enrichvars, loadervars, ds, files>>

CheckCompletenessTask(r) == CheckTask(r, "check_completeness", check_completeness(db))

CheckNotNullsTask(r) == CheckTask(r, "check_not_nulls", check_not_nulls(db))

CheckRangesTask(r) == CheckTask(r, "check_ranges", check_ranges(db))

NextDag ==
    \E r \in Runs :
        \/ \E t \in Tasks : Start(r, t)
        \/ \E t \in Tasks : MarkUpstreamFailed(r, t)
        \/ FetchPayload(r)
        \/ PersistPayload(r)
        \/ LoadFromDisk(r)
        \/ EnrichTask(r)
        \/ EnsureTableTask(r)
        \/ LoadTask(r)
        \/ CheckCompletenessTask(r)
        \/ CheckNotNullsTask(r)
        \/ CheckRangesTask(r)

SpecDag == InitDag /\ [][NextDag]_vars

---------------------------------------------------------------------------
(* Claims checked under Spec *)

PrimaryKeyUnique(T) ==
    /\ \A x \in DOMAIN T : T[x] = 1
    /\ \A x, y \in DOMAIN T : x.time = y.time => x = y

LoadedOk(l) == l.op = "load" /\ l.err = "none"

\* C1: a load that returns leaves at most one stored row per `time`; every
\* `time` of the batch is stored exactly once, with the batch's row (a row of
\* that time already in the table is replaced, not kept beside it), and the
\* rows whose `time` is not in the batch are the same before and after.
C1_UpsertByTime ==
    [][LoadedOk(last') =>
        /\ PrimaryKeyUnique(db'.rows)
        /\ \A t \in FrameTimes(last'.batch) :
              /\ SuppliedRow(last'.batch, t) \in DOMAIN db'.rows
              /\ BagCardinality(Where(db'.rows, LAMBDA x : x.time = t)) = 1
        /\ Where(db'.rows, LAMBDA x : x.time \notin FrameTimes(last'.batch))
             = Where(db.rows, LAMBDA x : x.time \notin FrameTimes(last'.batch))
      ]_vars

\* C1 witness: a load has replaced a stored row of one of its timestamps
\* while rows of other timestamps stayed in the table.
C1_Witness ==
    /\ LoadedOk(last)
    /\ last.hit
    /\ \E x \in DOMAIN db.rows : x.time \notin FrameTimes(last.batch)
    /\ \E t \in FrameTimes(last.batch) : SuppliedRow(last.batch, t).uv_index = Val(16)

\* C2: loading a batch of unique timestamps a second time, right after it
\* was loaded, leaves the table as the first load left it and returns the
\* same row count.
C2_LoadIdempotent ==
    [][(/\ LoadedOk(last')
        /\ last'.again
        /\ Cardinality(FrameTimes(last'.batch)) = Len(last'.batch.rows))
       => (db'.rows = db.rows /\ last'.ret = last.ret)]_vars

\* C2 witness: a non-empty batch of unique timestamps was loaded twice in a
\* row into a table that also holds other rows.
C2_Witness ==
    /\ LoadedOk(last)
    /\ last.again
    /\ Len(last.batch.rows) >= 1
    /\ Cardinality(FrameTimes(last.batch)) = Len(last.batch.rows)
    /\ last.ret[1] > Len(last.batch.rows)

NotNullOutside(x, lo, hi) == x # Null /\ (x[1] < lo \/ x[1] > hi)

ViolatingRows(T, m) ==
    Where(T, LAMBDA r : IF m = "uv_index" THEN NotNullOutside(r[m], 0, 15)
                        ELSE NotNullOutside(r[m], 0, 500))

\* C5: on an existing table check_ranges raises exactly when some row has
\* pm10 or pm2_5 outside [0, 500] or uv_index outside [0, 15], bounds
\* included; the error names exactly the metrics with such rows, each with
\* the number of its rows.
C5_RangeCheck ==
    (last.op = "check_ranges" /\ db.table) =>
        /\ last.err = "ValueError" <=>
              \E m \in {"pm10", "pm2_5", "uv_index"} : ViolatingRows(db.rows, m) # EmptyBag
        /\ last.err \in {"ValueError", "none"}
        /\ DOMAIN last.failures =
              {m \in {"pm10", "pm2_5", "uv_index"} : ViolatingRows(db.rows, m) # EmptyBag}
        /\ \A m \in DOMAIN last.failures :
              last.failures[m] = BagCardinality(ViolatingRows(db.rows, m))

\* C5 witness: the check raised for uv_index alone (a row with 16) on a
\* table that also holds a row with uv_index = 15 and pm10 = 500.
C5_Witness ==
    /\ last.op = "check_ranges"
    /\ last.err = "ValueError"
    /\ DOMAIN last.failures = {"uv_index"}
    /\ \E r \in DOMAIN db.rows : r.uv_index = Val(15) /\ r.pm10 = Val(500) /\ r.pm2_5 = Val(0)

\* C7: ensure_air_quality_table, in any state of the database, keeps every
\* stored row and never removes the schema or the table; when it returns,
\* schema and table exist.
C7_EnsureNonDestructive ==
    [][last'.op = "ensure" =>
        /\ db'.rows = db.rows
        /\ db.schema => db'.schema
        /\ db.table => db'.table
        /\ last'.err = "none" => (db'.schema /\ db'.table)
      ]_vars

\* C7 witness: the call returned on a table that existed and holds rows.
C7_Witness ==
    /\ last.op = "ensure"
    /\ last.err = "none"
    /\ last.had
    /\ db.rows # EmptyBag

---------------------------------------------------------------------------
(* Claims checked under SpecDays *)

StoredDates(T) == {r.date : r \in DOMAIN T}

DateComplete(T, d) ==
    /\ BagCardinality(Where(T, LAMBDA r : r.date = d)) = 24
    /\ Cardinality({r.time : r \in {x \in DOMAIN T : x.date = d}}) = 24

\* C4: on the table the loads have built, check_completeness returns
\* normally exactly when every stored date has 24 rows and 24 distinct
\* timestamps; otherwise it raises, listing exactly the (date, row count,
\* distinct timestamp count) of the dates that do not.
C4_Completeness ==
    (last.op = "check_completeness" /\ db.table) =>
        /\ last.err = "none" <=> \A d \in StoredDates(db.rows) : DateComplete(db.rows, d)
        /\ last.err \in {"none", "ValueError"}
        /\ last.failures =
              {<<d, BagCardinality(Where(db.rows, LAMBDA r : r.date = d)),
                 Cardinality({r.time : r \in {x \in DOMAIN db.rows : x.date = d}})>> :
                  d \in {e \in StoredDates(db.rows) : ~DateComplete(db.rows, e)}}

\* C4 witness: the check raised for a date with 23 rows, and for that date
\* only, while another stored date has all its 24 hours.
C4_Witness ==
    /\ last.op = "check_completeness"
    /\ last.err = "ValueError"
    /\ \E d, e \in StoredDates(db.rows) :
          /\ last.failures = {<<d, 23, 23>>}
          /\ e # d
          /\ DateComplete(db.rows, e)

---------------------------------------------------------------------------
(* Claims checked under SpecEnrich *)

SourceTimes == FieldValues(payload.hourly, "time")

MeasuredPresent == {"pm10", "pm2_5", "uv_index"} \subseteq Range(HourlyFields(payload.hourly))

UnknownPresent ==
    \E c \in Range(HourlyFields(payload.hourly)) : c \notin Range(COLUMN_ORDER)

\* The source position of an output row (its pm10 is 10 + position).
SourceIndex(r) == r.pm10[1] - 10

\* C3: for a payload with the canonical fields and arrays of equal length,
\* enrich_raw_data returns one row per distinct `time` of the input (two
\* `time` values are the same when they are the same UTC timestamp); each
\* row is the first source row of its `time`, and the rows are in source
\* order.
C3_OneRowPerTime ==
    (enriched.err # "not_called" /\ MeasuredPresent /\ EqualLengths(payload.hourly)) =>
        /\ enriched.err = "none"
        /\ LET out == enriched.df.rows IN
           /\ Len(out) = Cardinality({to_datetime(SourceTimes[i]) : i \in DOMAIN SourceTimes})
           /\ \A k \in DOMAIN out :
                 /\ SourceIndex(out[k]) \in DOMAIN SourceTimes
                 /\ out[k].time = Val(to_datetime(SourceTimes[SourceIndex(out[k])]))
                 /\ \A j \in 1 .. (SourceIndex(out[k]) - 1) :
                       to_datetime(SourceTimes[j]) # to_datetime(SourceTimes[SourceIndex(out[k])])
                 /\ \A m \in DOMAIN out : k < m => SourceIndex(out[k]) < SourceIndex(out[m])

\* C3 witness: three source rows, the first and the third of the same time:
\* the rows returned are the first and the second.
C3_Witness ==
    /\ enriched.err = "none"
    /\ MeasuredPresent
    /\ Len(SourceTimes) = 3
    /\ to_datetime(SourceTimes[1]) = to_datetime(SourceTimes[3])
    /\ to_datetime(SourceTimes[1]) # to_datetime(SourceTimes[2])
    /\ Len(enriched.df.rows) = 2

\* C6 as claimed: a payload whose hourly block lacks a canonical measurement
\* column, or holds a field that is no canonical column, makes the transform
\* fail: it returns no rows.
C6_RejectsUnknownAndMissing ==
    (enriched.err # "not_called" /\ (~MeasuredPresent \/ UnknownPresent)) =>
        ~(enriched.err = "none" /\ Len(enriched.df.rows) >= 1)

\* C6 amended: a payload lacking a canonical measurement column makes the
\* transform fail; a field that is no canonical column does not: with the
\* canonical fields present and arrays of equal length the rows are
\* returned, and every frame returned has exactly the canonical columns in
\* canonical order.
C6_RejectsMissingDropsUnknown ==
    enriched.err # "not_called" =>
        /\ ~MeasuredPresent => enriched.err \in {"KeyError", "ValueError"}
        /\ (MeasuredPresent /\ EqualLengths(payload.hourly)) => enriched.err = "none"
        /\ enriched.err = "none" =>
              /\ enriched.df.columns =
                    <<"time", "pm10", "pm2_5", "uv_index", "latitude", "longitude",
                      "timezone", "city", "date", "execution_time">>
              /\ \A k \in DOMAIN enriched.df.rows :
                    DOMAIN enriched.df.rows[k] =
                        {"time", "pm10", "pm2_5", "uv_index", "latitude", "longitude",
                         "timezone", "city", "date", "execution_time"}

\* C6 witness: a payload with the field "ozone" was transformed into rows.
C6_Witness ==
    /\ enriched.err = "none"
    /\ UnknownPresent
    /\ Len(enriched.df.rows) >= 1

---------------------------------------------------------------------------
(* Claims checked under SpecLoaders *)

\* C10: whatever the order and interleaving of the two runs' loads, the
\* table holds exactly one row for every `time` some load has written, none
\* for any other, and that row is the one supplied by the statement that
\* wrote the `time` last.
C10_LastWriterWins ==
    /\ PrimaryKeyUnique(db.rows)
    /\ {r.time : r \in DOMAIN db.rows} = DOMAIN written
    /\ \A t \in DOMAIN written : written[t] \in DOMAIN db.rows

\* C10 witness: both runs have written hour 0 and run_b is still inside
\* its load; hour 0 holds run_a's row, written last, and a later hour
\* holds run_b's.
C10_Witness ==
    /\ procs["run_b"].pc = "inserted"
    /\ \E x, y \in DOMAIN db.rows :
          /\ x.time = Val(0)
          /\ x.execution_time = Val(1)
          /\ y.time # Val(0)
          /\ y.execution_time = Val(2)

---------------------------------------------------------------------------
(* Claims checked under SpecDag *)

Started(r, t) == ti[r][t] \in {"running", "success", "failed"}

Checks == <<"check_completeness", "check_not_nulls", "check_ranges">>

\* C8: in every run a data-quality check has started only if load has
\* succeeded, the checks run one at a time in the order completeness,
\* null-integrity, range (a check has started only if the one before it has
\* succeeded), and load has started only if ensure_table has succeeded.  Once
\* a check has failed no later check of the run has started, and the run is
\* never successful: it ends failed.
C8_ChecksOrderedAndAbort ==
    \A r \in Runs :
        /\ \A i \in 1 .. 3 : Started(r, Checks[i]) => ti[r]["load"] = "success"
        /\ \A i \in 2 .. 3 : Started(r, Checks[i]) => ti[r][Checks[i - 1]] = "success"
        /\ Cardinality({i \in 1 .. 3 : ti[r][Checks[i]] = "running"}) <= 1
        /\ Started(r, "load") => ti[r]["ensure_table"] = "success"
        /\ \A i \in 1 .. 3 :
              ti[r][Checks[i]] = "failed" =>
                  /\ \A j \in (i + 1) .. 3 : ~Started(r, Checks[j])
                  /\ RunState(r) # "success"
                  /\ (\A t \in Tasks : ti[r][t] \notin {"none", "running"})
                        => RunState(r) = "failed"

C8_Witness ==
    \E r \in Runs :
        /\ ti[r]["load"] = "success"
        /\ ti[r]["check_completeness"] = "success"
        /\ ti[r]["check_not_nulls"] = "failed"
        /\ ti[r]["check_ranges"] = "upstream_failed"
        /\ RunState(r) = "failed"

PayloadFile(r) == air_quality_filename_for_date(ds[r])

\* The file of the run's logical date exists and reads back as the payload
\* that the run fetched.
HoldsFetchedPayload(fs, r) ==
    /\ PayloadFile(r) \in DOMAIN fs
    /\ load_payload_from_disk(fs, PayloadFile(r)).err = "none"
    /\ load_payload_from_disk(fs, PayloadFile(r)).ret = xcom[r]["fetch_payload"]

AfterCheckpoint == {"enrich", "load", "check_completeness", "check_not_nulls", "check_ranges"}

\* C9: in every state where the transform (enrich) of a run has started,
\* succeeded or failed, persist_payload and load_from_disk have succeeded, the
\* file air_quality_<logical date>.json exists and holds the fetched payload,
\* and the payload handed to the transform is the one read back from that
\* file; no step of enrich, load or a quality check, failing or not, changes
\* the files.
C9_DurabilityCheckpoint ==
    [][\A r \in Runs :
          /\ Started(r, "enrich")' =>
                /\ ti'[r]["persist_payload"] = "success"
                /\ ti'[r]["load_from_disk"] = "success"
                /\ HoldsFetchedPayload(files, r)'
                /\ xcom'[r]["load_from_disk"]
                      = load_payload_from_disk(files', PayloadFile(r)').ret
          /\ (\E t \in AfterCheckpoint : ti[r][t] # ti'[r][t]) => files' = files]_vars

C9_Witness ==
    \E r \in Runs :
        /\ ti[r]["enrich"] = "failed"
        /\ HoldsFetchedPayload(files, r)

====
